---- MODULE Spec2Model ----
(***************************************************************************)
(* Model of the sizing engine of src/src/App.tsx (calculateSolarSystem).   *)
(*                                                                         *)
(* Numbers.  The engine works on JavaScript numbers.  Appliance values,    *)
(* specs and prices are integers here; every product with a decimal        *)
(* literal (0.7, 1.2, 0.6, 4.5, 1.3, 0.9, 0.4) is kept as an exact         *)
(* fraction [n, d] in lowest terms, so that >= and Math.ceil are decided   *)
(* on the exact value.  The rounding of IEEE doubles (relative error below *)
(* 2^-52) is not modelled.  A division by zero yields the fraction 1/0     *)
(* (Infinity) or 0/0 (NaN), as in JavaScript.                              *)
(***************************************************************************)
EXTENDS Integers, Sequences, FiniteSets, TLC

VARIABLES
    monthlyBill, fuelCost,  \* CalculatorPage financeData.bill and .fuel
    appliances,             \* CalculatorPage selectedAppliances
    catalog,                \* App catalog
    result,                 \* CalculatorPage result
    step,                   \* CalculatorPage step
    contactData,            \* CalculatorPage contactData
    leads,                  \* App leads
    pendingCalcs,           \* handleCalculate runs waiting for their 2 s timer
    items,                  \* CatalogEditor items
    pendingSaves,           \* handleSave runs waiting for their 1 s timer
    loading,                \* CalculatorPage loading
    user,                   \* App user
    route,                  \* App route
    branding,               \* App branding
    store,                  \* localStorage, the four inverta_ keys
    phase,                  \* how far the mount pass of App has come
    queued,                 \* state updates queued by the load effect
    authLoading,            \* AuthPage loading
    pendingLogins,          \* handleLogin runs waiting for their 1.5 s timer
    toasts,                 \* Toaster toasts
    nextToastId,            \* number of toasts added so far, plus one
    toastPromises           \* toast.promise calls waiting for their promise

engineVars == <<monthlyBill, fuelCost, appliances, catalog, result>>
appVars == <<step, contactData, leads, pendingCalcs, items, pendingSaves>>
sessionVars == <<user, route, branding, phase, queued, authLoading, pendingLogins>>
toastVars == <<toasts, nextToastId, toastPromises>>
shellVars == <<loading, store, sessionVars, toastVars>>
vars == <<monthlyBill, fuelCost, appliances, catalog, result,
          step, contactData, leads, pendingCalcs, items, pendingSaves,
          loading, user, route, branding, store, phase, queued, authLoading,
          pendingLogins, toasts, nextToastId, toastPromises>>

\* ------------------------------------------------------------------ bounds
MaxCatalog == 3
MaxApps == 2

\* ------------------------------------------------------- input domains
\* SelectedAppliance (line 132): the fields the engine reads.  Values are
\* non-negative integers; the last appliance is switched on for 0 hours.
SelectedAppliances ==
    { [watts |-> 100, count |-> 1, hours |-> 6],
      [watts |-> 75,  count |-> 2, hours |-> 3],
      [watts |-> 100, count |-> 1, hours |-> 0] }

\* Loads that exceed the fallback specs: one and six 1 HP air conditioners
\* ('ac1', line 149: 1000 W, 8 h/day).
HeavyAppliances ==
    { [watts |-> 1000, count |-> 1, hours |-> 8],
      [watts |-> 1000, count |-> 6, hours |-> 8] }

\* CatalogItem (line 129): the fields the engine reads.  Specs are positive,
\* as in DEFAULT_CATALOG (the catalog editor changes prices only); a price of
\* 0 is what the editor stores for a cleared price field.
CatalogItems ==
    { [type |-> "inverter",     spec |-> 84,  price |-> 5],
      [type |-> "inverter",     spec |-> 200, price |-> 20],
      [type |-> "battery",      spec |-> 60,  price |-> 3],
      [type |-> "battery",      spec |-> 400, price |-> 7],
      [type |-> "panel",        spec |-> 65,  price |-> 2],
      [type |-> "panel",        spec |-> 200, price |-> 4],
      [type |-> "installation", spec |-> 1,   price |-> 0],
      [type |-> "installation", spec |-> 1,   price |-> 9] }

\* financeData (line 766): the default form values and the all-zero form.
FinanceData == { [bill |-> 50000, fuel |-> 30000], [bill |-> 0, fuel |-> 0] }

SeqsUpTo(S, n) == UNION { [1..k -> S] : k \in 0..n }

\* --------------------------------------------------------------- fractions
RECURSIVE GCD(_, _)
GCD(a, b) == IF b = 0 THEN a ELSE GCD(b, a % b)

Abs(x) == IF x < 0 THEN -x ELSE x

\* n/d in lowest terms with d >= 0; d = 0 is Infinity (n = 1), -Infinity
\* (n = -1) or NaN (n = 0).
Frac(n, d) ==
    IF d = 0 THEN [n |-> IF n > 0 THEN 1 ELSE IF n < 0 THEN -1 ELSE 0, d |-> 0]
    ELSE LET s == IF d < 0 THEN -1 ELSE 1
             g == GCD(Abs(n), Abs(d))
         IN  [n |-> (s * n) \div g, d |-> (s * d) \div g]

Num(k) == [n |-> k, d |-> 1]

\* a * b, a / b and a + b on finite fractions (b may be zero in Div).
Mul(a, b) == Frac(a.n * b.n, a.d * b.d)
Div(a, b) == Frac(a.n * b.d, a.d * b.n)
Add(a, b) == Frac(a.n * b.d + b.n * a.d, a.d * b.d)

\* a >= b on finite fractions.
Geq(a, b) == a.n * b.d >= b.n * a.d

\* Math.ceil on a finite fraction.
Ceil(a) == -((-a.n) \div a.d)

IsFinite(a) == a.d # 0

\* ------------------------------------------------------------ the engine
\* What Array.prototype.find returns when no element matches.
undefined == [type |-> "undefined", spec |-> 0, price |-> 0]

\* Variant: the accumulator is assigned, not added to.
dailyWh_assigned(apps) ==
    IF apps = <<>> THEN 0
    ELSE LET app == apps[Len(apps)] IN app.watts * app.count * app.hours

\* appliances.forEach(app => { dailyWh += app.watts * app.count * app.hours; ... })
RECURSIVE dailyWh(_)
dailyWh(apps) ==
    IF apps = <<>> THEN 0
    ELSE LET app == apps[Len(apps)]
         IN  dailyWh(SubSeq(apps, 1, Len(apps) - 1)) + app.watts * app.count * app.hours

\* appliances.forEach(app => { ...; peakWatts += app.watts * app.count; })
RECURSIVE peakWatts(_)
peakWatts(apps) ==
    IF apps = <<>> THEN 0
    ELSE LET app == apps[Len(apps)]
         IN  peakWatts(SubSeq(apps, 1, Len(apps) - 1)) + app.watts * app.count

diversityFactor == Frac(7, 10)

\* Variant: the diversity factor is left out.
designedPeakLoad_undiversified(pw) == Num(pw)

\* const designedPeakLoad = peakWatts * diversityFactor;
designedPeakLoad(pw) == Mul(Num(pw), diversityFactor)

\* const requiredInverterSize = designedPeakLoad * 1.2;
requiredInverterSize(dpl) == Mul(dpl, Frac(12, 10))

\* arr.find(pred), with hits the indices of the elements that satisfy pred:
\* the first such element in array order, undefined when there is none.
find(arr, hits) ==
    IF hits = {} THEN undefined
    ELSE arr[CHOOSE i \in hits : \A j \in hits : i <= j]

\* The indices of the items of a type: the predicate i => i.type === type.
ofType(cat, type) == { i \in 1..Len(cat) : cat[i].type = type }

\* Variant: when no inverter fits, the last inverter of the catalog is taken.
inverter_lastFallback(cat, required) ==
    LET invs == ofType(cat, "inverter")
        fit  == find(cat, { i \in invs : Geq(Num(cat[i].spec), required) })
    IN  IF fit # undefined THEN fit
        ELSE IF invs = {} THEN undefined
        ELSE cat[CHOOSE i \in invs : \A j \in invs : j <= i]

\* Variant: the first inverter is taken whether it fits or not.
inverter_firstOfType(cat, required) == find(cat, ofType(cat, "inverter"))

\* catalog.find(i => i.type === 'inverter' && i.spec >= requiredInverterSize)
\*   || catalog.find(i => i.type === 'inverter')
inverter(cat, required) ==
    LET fit == find(cat, { i \in ofType(cat, "inverter") : Geq(Num(cat[i].spec), required) })
    IN  IF fit # undefined THEN fit
        ELSE find(cat, ofType(cat, "inverter"))

\* Variant: the battery of largest spec is taken.
battery_largest(cat) ==
    LET bats == { i \in 1..Len(cat) : cat[i].type = "battery" }
    IN  IF bats = {} THEN undefined
        ELSE cat[CHOOSE i \in bats : \A j \in bats :
                    \/ cat[j].spec < cat[i].spec
                    \/ (cat[j].spec = cat[i].spec /\ i <= j)]

\* catalog.find(i => i.type === 'battery')
battery(cat) == find(cat, ofType(cat, "battery"))

\* Variant: the last panel of the catalog is taken.
panel_last(cat) ==
    LET pans == { i \in 1..Len(cat) : cat[i].type = "panel" }
    IN  IF pans = {} THEN undefined
        ELSE cat[CHOOSE i \in pans : \A j \in pans : j <= i]

\* catalog.find(i => i.type === 'panel')
panel(cat) == find(cat, ofType(cat, "panel"))

\* item?.spec || dflt : dflt when the item is missing or its spec is 0.
specOr(item, dflt) ==
    IF item = undefined THEN dflt
    ELSE IF item.spec = 0 THEN dflt ELSE item.spec

\* item?.price || dflt : dflt when the item is missing or its price is 0.
priceOr(item, dflt) ==
    IF item = undefined THEN dflt
    ELSE IF item.price = 0 THEN dflt ELSE item.price

InverterSpecFallback == 5000
BatterySpecFallback == 4800
PanelSpecFallback == 550
InstallCostFallback == 150000

\* Variant: no inverter is counted when the catalog has none.
inverterCount_noneWhenMissing(required, inv) ==
    IF inv = undefined THEN 0
    ELSE Ceil(Div(required, Num(specOr(inv, InverterSpecFallback))))

\* Variant: at least one inverter is always counted.
inverterCount_atLeastOne(required, inv) ==
    LET c == Ceil(Div(required, Num(specOr(inv, InverterSpecFallback))))
    IN  IF c < 1 THEN 1 ELSE c

\* Variant: Math.floor in place of Math.ceil.
inverterCount_floor(required, inv) ==
    LET q == Div(required, Num(specOr(inv, InverterSpecFallback)))
    IN  q.n \div q.d

\* Math.ceil(requiredInverterSize / (inverter?.spec || 5000))
inverterCount(required, inv) ==
    Ceil(Div(required, Num(specOr(inv, InverterSpecFallback))))

\* const requiredStorageWh = dailyWh * 0.6;
requiredStorageWh(wh) == Mul(Num(wh), Frac(6, 10))

\* Variant: Math.round in place of Math.ceil.
batteryCount_round(storage, bat) ==
    LET q == Div(storage, Num(specOr(bat, BatterySpecFallback)))
    IN  (2 * q.n + q.d) \div (2 * q.d)

\* Math.ceil(requiredStorageWh / (battery?.spec || 4800))
batteryCount(storage, bat) ==
    Ceil(Div(storage, Num(specOr(bat, BatterySpecFallback))))

\* const requiredPanelPower = (dailyWh / 4.5) * 1.3;
requiredPanelPower(wh) == Mul(Div(Num(wh), Frac(45, 10)), Frac(13, 10))

\* Math.ceil(requiredPanelPower / (panel?.spec || 550))
panelCount(power, pan) ==
    Ceil(Div(power, Num(specOr(pan, PanelSpecFallback))))

\* Variant: the panel cost is subtracted.
equipmentCost_panelsSubtracted(ic, inv, bc, bat, pc, pan) ==
    (ic * priceOr(inv, 0)) + (bc * priceOr(bat, 0)) - (pc * priceOr(pan, 0))

\* Variant: the panels are left out of the equipment cost.
equipmentCost_noPanels(ic, inv, bc, bat, pc, pan) ==
    (ic * priceOr(inv, 0)) + (bc * priceOr(bat, 0))

\* (inverterCount * (inverter?.price || 0)) + (batteryCount * (battery?.price || 0))
\*   + (panelCount * (panel?.price || 0))
equipmentCost(ic, inv, bc, bat, pc, pan) ==
    (ic * priceOr(inv, 0)) + (bc * priceOr(bat, 0)) + (pc * priceOr(pan, 0))

\* Variant: ?? in place of ||, so that a price of 0 is kept.
installCost_nullish(cat) ==
    LET item == find(cat, ofType(cat, "installation"))
    IN  IF item = undefined THEN InstallCostFallback ELSE item.price

\* catalog.find(i => i.type === 'installation')?.price || 150000
installCost(cat) ==
    priceOr(find(cat, ofType(cat, "installation")), InstallCostFallback)

\* const totalCost = equipmentCost + installCost;
totalCost(equipment, install) == equipment + install

\* Variant: the fuel saving is not discounted.
totalAnnualSavings_fullFuel(bill, fuel) == Num(bill * 12 + fuel * 12)

\* annualGridCost + (annualFuelCost * 0.9), with the two annual costs * 12
totalAnnualSavings(bill, fuel) ==
    LET annualGridCost == bill * 12
        annualFuelCost == fuel * 12
    IN  Add(Num(annualGridCost), Mul(Num(annualFuelCost), Frac(9, 10)))

\* const co2Saved = dailyWh * 0.4 * 365 / 1000;
co2Saved(wh) == Div(Mul(Mul(Num(wh), Frac(4, 10)), Num(365)), Num(1000))

calculateSolarSystem(bill, fuel, apps, cat) ==
    LET wh       == dailyWh(apps)
        pw       == peakWatts(apps)
        dpl      == designedPeakLoad(pw)
        required == requiredInverterSize(dpl)
        inv      == inverter(cat, required)
        ic       == inverterCount(required, inv)
        bat      == battery(cat)
        bc       == batteryCount(requiredStorageWh(wh), bat)
        pan      == panel(cat)
        pc       == panelCount(requiredPanelPower(wh), pan)
        cost     == totalCost(equipmentCost(ic, inv, bc, bat, pc, pan), installCost(cat))
        savings  == totalAnnualSavings(bill, fuel)
    IN  [ system     |-> [ inverterCount |-> ic, batteryCount |-> bc, panelCount |-> pc,
                           inverter |-> inv, battery |-> bat, panel |-> pan ],
          financials |-> [ totalCost |-> cost, totalAnnualSavings |-> savings,
                           roiYears |-> Div(Num(cost), savings) ],
          impact     |-> [ co2Saved |-> co2Saved(wh) ],
          details    |-> [ dailyWh |-> wh, designedPeakLoad |-> dpl ] ]

\* ------------------------------------------------------- the state machine
\* No calculation has been made yet.
null == [system |-> "null"]

\* ---------------------------------------------------- the persisted state
\* The keys of localStorage the application uses.
StoreKeys == { "inverta_user", "inverta_catalog", "inverta_leads", "inverta_branding" }

DEFAULT_BRANDING ==
    [ primaryColor |-> "#14532d", accentColor |-> "#a3e635",
      companyName |-> "Inverta Demo", tagline |-> "Solar Configurator",
      logo |-> "null" ]

\* JSON.stringify and JSON.parse on the values the application stores
\* (records and arrays of strings and finite numbers): the text and the
\* value read back from it.
JSONstringify(v) == [json |-> v]
JSONparse(text) == text.json

\* localStorage.getItem, setItem and removeItem; getItem of a missing key
\* is null.
getItem(st, key) == st[key]
setItem(st, key, text) == [st EXCEPT ![key] = text]
removeItem(st, key) == [st EXCEPT ![key] = null]
emptyStore == [k \in StoreKeys |-> null]

\* The state value an effect depends on and writes, by its key.
stateOf(key, u, c, l, b) ==
    CASE key = "inverta_user"     -> u
      [] key = "inverta_catalog"  -> c
      [] key = "inverta_leads"    -> l
      [] key = "inverta_branding" -> b

\* Variant: the user effect stores a missing user as the text null.
saveEffect_userStored(st, key, value) == setItem(st, key, JSONstringify(value))

\* One save effect: if (user) setItem(...) else removeItem('inverta_user');
\* for the other three keys setItem(key, JSON.stringify(value)).
saveEffect(st, key, value) ==
    IF key = "inverta_user" /\ value = null
    THEN removeItem(st, key)
    ELSE setItem(st, key, JSONstringify(value))

\* The save effects of the keys whose dependency changed in a render, run
\* over the state of that render. Each writes its own key only.
saveEffects(st, keys, u, c, l, b) ==
    [ k \in StoreKeys |->
        IF k \in keys THEN saveEffect(st, k, stateOf(k, u, c, l, b))[k] ELSE st[k] ]

\* The store once every save effect has run over a state.
Persisted(u, c, l, b) == saveEffects(emptyStore, StoreKeys, u, c, l, b)

\* login(email): the user it sets.
loggedIn(email) ==
    [ id |-> "1", name |-> "Installer Admin", email |-> email,
      companyName |-> "Suntap Energy Ltd." ]

\* The application around a page: started, nobody logging in, no toast.
ShellIdle(path, u) ==
    /\ loading = FALSE
    /\ user = u
    /\ route = path
    /\ branding = DEFAULT_BRANDING
    /\ store = Persisted(user, catalog, leads, branding)
    /\ phase = "ready"
    /\ queued = null
    /\ authLoading = FALSE
    /\ pendingLogins = <<>>
    /\ toasts = <<>>
    /\ nextToastId = 1
    /\ toastPromises = <<>>

\* The wizard has not been used and no catalog editor is open.
noContact == [name |-> "", email |-> "", phone |-> ""]
AppIdle ==
    /\ step = 1
    /\ contactData = noContact
    /\ leads = <<>>
    /\ pendingCalcs = <<>>
    /\ items = catalog
    /\ pendingSaves = <<>>
    /\ ShellIdle("/calculator", null)

\* One sizing request: the arguments are fixed when the request is made.
Init ==
    /\ \E f \in FinanceData : monthlyBill = f.bill /\ fuelCost = f.fuel
    /\ appliances \in SeqsUpTo(SelectedAppliances, MaxApps)
    /\ catalog \in SeqsUpTo(CatalogItems, MaxCatalog)
    /\ result = null
    /\ AppIdle

\* The engine is run on the request.
Calculate ==
    /\ result = null
    /\ result' = calculateSolarSystem(monthlyBill, fuelCost, appliances, catalog)
    /\ UNCHANGED <<monthlyBill, fuelCost, appliances, catalog>>
    /\ UNCHANGED appVars
    /\ UNCHANGED shellVars

\* A sizing request for heavy loads.
InitHeavy ==
    /\ \E f \in FinanceData : monthlyBill = f.bill /\ fuelCost = f.fuel
    /\ appliances \in SeqsUpTo(HeavyAppliances, MaxApps)
    /\ catalog \in SeqsUpTo(CatalogItems, MaxCatalog)
    /\ result = null
    /\ AppIdle

\* A sizing request with the default bill and fuel cost of the form.
InitDefaultFinance ==
    /\ monthlyBill = 50000 /\ fuelCost = 30000
    /\ appliances \in SeqsUpTo(SelectedAppliances, MaxApps)
    /\ catalog \in SeqsUpTo(CatalogItems, MaxCatalog)
    /\ result = null
    /\ AppIdle

Next == Calculate

Spec == Init /\ [][Next]_vars

SpecDefaultFinance == InitDefaultFinance /\ [][Next]_vars

SpecHeavy == InitHeavy /\ [][Next]_vars

\* ------------------------------------------------- what the claims refer to
\* The sum of a finite family of integers, taken in no particular order.
RECURSIVE SumFn(_)
SumFn(f) ==
    IF DOMAIN f = {} THEN 0
    ELSE LET i == CHOOSE k \in DOMAIN f : TRUE
         IN  f[i] + SumFn([j \in DOMAIN f \ {i} |-> f[j]])

\* Sum over the list of watts x count x hours, and of watts x count.
TotalEnergy(apps) ==
    SumFn([i \in 1..Len(apps) |-> apps[i].watts * apps[i].count * apps[i].hours])
TotalWatts(apps) ==
    SumFn([i \in 1..Len(apps) |-> apps[i].watts * apps[i].count])

\* The list rearranged by the permutation p of its indices.
Permuted(apps, p) == [i \in 1..Len(apps) |-> apps[p[i]]]

\* The first item of a kind, in catalog order (undefined when there is none).
RECURSIVE FirstOfKind(_, _)
FirstOfKind(cat, kind) ==
    IF cat = <<>> THEN undefined
    ELSE IF Head(cat).type = kind THEN Head(cat)
    ELSE FirstOfKind(Tail(cat), kind)

HasKind(cat, kind) == \E i \in 1..Len(cat) : cat[i].type = kind

\* ceil(n / d) for n >= 0 and d > 0.
CeilQ(n, d) == (n + d - 1) \div d

\* requiredInverterVA = 0.7 x 1.2 x total watts = 84/100 x total watts;
\* an inverter item qualifies when its spec is at least that.
Qualifies(item, apps) ==
    item.type = "inverter" /\ 100 * item.spec >= 84 * TotalWatts(apps)
Qualifying(cat, apps) == { i \in 1..Len(cat) : Qualifies(cat[i], apps) }

Calculated == result # null

\* Some appliance of the list has positive watts, count and hours.
HasDemand(apps) ==
    \E i \in 1..Len(apps) : apps[i].watts > 0 /\ apps[i].count > 0 /\ apps[i].hours > 0

\* The three equipment costs of a result, from its own counts and items.
PriceOf(item) == IF item = undefined THEN 0 ELSE item.price
ResultEquipmentCost(r) ==
    r.system.inverterCount * PriceOf(r.system.inverter)
    + r.system.batteryCount * PriceOf(r.system.battery)
    + r.system.panelCount * PriceOf(r.system.panel)

\* ------------------------------------------------------------------ claims

\* C1: details.dailyWh is the sum over the appliance list of watts x count x
\* hours, and the engine's accumulation over any permutation of the list
\* gives that same dailyWh.
C1_DailyWhIsOrderFreeSum ==
    Calculated =>
        /\ result.details.dailyWh = TotalEnergy(appliances)
        /\ \A p \in Permutations(1..Len(appliances)) :
              dailyWh(Permuted(appliances, p)) = result.details.dailyWh

\* C1 witness: a result for two different appliances with different terms.
C1_Witness ==
    /\ Calculated
    /\ Len(appliances) = 2
    /\ appliances[1].watts * appliances[1].count * appliances[1].hours
         # appliances[2].watts * appliances[2].count * appliances[2].hours
    /\ result.details.dailyWh > 0

\* C2: details.designedPeakLoad is 0.7 x (sum of watts x count); one 100 W
\* appliance, count 1, 6 h/day gives dailyWh = 600 and designedPeakLoad = 70.
C2_DesignedPeakLoad ==
    Calculated =>
        /\ IsFinite(result.details.designedPeakLoad)
        /\ 10 * result.details.designedPeakLoad.n
             = 7 * TotalWatts(appliances) * result.details.designedPeakLoad.d
        /\ appliances = << [watts |-> 100, count |-> 1, hours |-> 6] >> =>
              /\ result.details.dailyWh = 600
              /\ result.details.designedPeakLoad = Num(70)

\* C2 witness: the result for the one 100 W appliance used 6 h/day.
C2_Witness ==
    /\ Calculated
    /\ appliances = << [watts |-> 100, count |-> 1, hours |-> 6] >>
    /\ result.details.designedPeakLoad = Num(70)

\* C3 (as stated): when some inverter item has spec >= requiredInverterVA, the
\* chosen inverter is one of lowest spec among the qualifying items.
C3_LowestQualifyingInverter ==
    (Calculated /\ Qualifying(catalog, appliances) # {}) =>
        /\ result.system.inverter # undefined
        /\ Qualifies(result.system.inverter, appliances)
        /\ \A i \in Qualifying(catalog, appliances) :
              result.system.inverter.spec <= catalog[i].spec

\* C4: when the catalog has inverter items and none qualifies, the chosen
\* inverter is the first inverter item in catalog order and inverterCount is
\* ceil(requiredInverterVA / its spec); a 5000 VA inverter alone and a
\* requirement of 6000 VA give 2.
C4_FallbackInverter ==
    /\ (Calculated /\ HasKind(catalog, "inverter") /\ Qualifying(catalog, appliances) = {}) =>
          /\ result.system.inverter = FirstOfKind(catalog, "inverter")
          /\ result.system.inverterCount
               = CeilQ(84 * TotalWatts(appliances), 100 * FirstOfKind(catalog, "inverter").spec)
    /\ LET only == << [type |-> "inverter", spec |-> 5000, price |-> 650000] >>
       IN  inverterCount(Num(6000), inverter(only, Num(6000))) = 2

\* C4 witness: two different inverters, neither of which covers the load.
C4_Witness ==
    /\ Calculated
    /\ Qualifying(catalog, appliances) = {}
    /\ \E i, j \in 1..Len(catalog) :
          /\ i < j
          /\ catalog[i].type = "inverter" /\ catalog[j].type = "inverter"
          /\ catalog[i].spec # catalog[j].spec
    /\ result.system.inverterCount >= 2

\* C5: headroom: when some inverter item has spec >= requiredInverterVA,
\* inverterCount x (chosen inverter's spec) >= requiredInverterVA.
C5_Headroom ==
    (Calculated /\ Qualifying(catalog, appliances) # {}) =>
        /\ result.system.inverter # undefined
        /\ 100 * result.system.inverterCount * result.system.inverter.spec
             >= 84 * TotalWatts(appliances)

\* C5 witness: a positive load that some inverter of the catalog covers.
C5_Witness ==
    /\ Calculated
    /\ Qualifying(catalog, appliances) # {}
    /\ TotalWatts(appliances) > 0
    /\ result.system.inverterCount >= 1

\* C6: the three counts are integers >= 0, and each is >= 1 when some
\* appliance has positive watts, count and hours.
C6_Counts ==
    Calculated =>
        /\ result.system.inverterCount \in Nat
        /\ result.system.batteryCount \in Nat
        /\ result.system.panelCount \in Nat
        /\ HasDemand(appliances) =>
              /\ result.system.inverterCount >= 1
              /\ result.system.batteryCount >= 1
              /\ result.system.panelCount >= 1

\* C6 witness: demand met by one unit of each kind, each kind in the catalog.
C6_Witness ==
    /\ Calculated
    /\ HasDemand(appliances)
    /\ HasKind(catalog, "inverter") /\ HasKind(catalog, "battery") /\ HasKind(catalog, "panel")
    /\ result.system.inverterCount = 1
    /\ result.system.batteryCount = 1
    /\ result.system.panelCount = 1

\* C7: the chosen battery is the first battery item in catalog order, whatever
\* the later battery items are, and batteryCount is
\* ceil(0.6 x dailyWh / its spec).
C7_FirstBattery ==
    (Calculated /\ HasKind(catalog, "battery")) =>
        /\ result.system.battery = FirstOfKind(catalog, "battery")
        /\ result.system.batteryCount
             = CeilQ(6 * TotalEnergy(appliances), 10 * FirstOfKind(catalog, "battery").spec)

\* C7 witness: a later battery would cover the storage alone, the first one
\* does not, and several of the first are counted.
C7_Witness ==
    /\ Calculated
    /\ \E i, j \in 1..Len(catalog) :
          /\ i < j
          /\ catalog[i].type = "battery" /\ catalog[j].type = "battery"
          /\ 10 * catalog[j].spec >= 6 * TotalEnergy(appliances)
          /\ 10 * catalog[i].spec < 6 * TotalEnergy(appliances)
          /\ result.system.battery = catalog[i]
    /\ result.system.batteryCount >= 2

\* C8: the chosen panel is the first panel item in catalog order, and
\* panelCount is ceil((dailyWh / 4.5) x 1.3 / its spec).
C8_FirstPanel ==
    (Calculated /\ HasKind(catalog, "panel")) =>
        /\ result.system.panel = FirstOfKind(catalog, "panel")
        /\ result.system.panelCount
             = CeilQ(13 * TotalEnergy(appliances), 45 * FirstOfKind(catalog, "panel").spec)

\* C8 witness: a later panel of larger spec is passed over for the first one.
C8_Witness ==
    /\ Calculated
    /\ \E i, j \in 1..Len(catalog) :
          /\ i < j
          /\ catalog[i].type = "panel" /\ catalog[j].type = "panel"
          /\ catalog[j].spec > catalog[i].spec
          /\ result.system.panel = catalog[i]
    /\ result.system.panelCount >= 2

\* C9: totalCost is exactly inverterCount x inverter price + batteryCount x
\* battery price + panelCount x panel price + installCost, with the counts
\* and items of result.system.
C9_TotalCost ==
    Calculated =>
        result.financials.totalCost = ResultEquipmentCost(result) + installCost(catalog)

\* C9 witness: all three kinds are in the catalog and each is counted.
C9_Witness ==
    /\ Calculated
    /\ result.system.inverter # undefined
    /\ result.system.battery # undefined
    /\ result.system.panel # undefined
    /\ result.system.inverterCount >= 1
    /\ result.system.batteryCount >= 1
    /\ result.system.panelCount >= 2

\* C10 (as stated): the installation cost within totalCost is the price of
\* the catalog's installation item whenever there is one, price 0 included,
\* and 150000 only when there is none.
C10_InstallCostIsItemPrice ==
    Calculated =>
        result.financials.totalCost - ResultEquipmentCost(result)
          = IF HasKind(catalog, "installation")
            THEN FirstOfKind(catalog, "installation").price
            ELSE InstallCostFallback

\* C11: for a catalog missing any of the kinds inverter, battery, panel the
\* engine still returns a result; a missing kind has no chosen item, its
\* count is computed with the fallback spec (5000, 4800, 550) and it adds
\* nothing to totalCost.
C11_MissingKinds ==
    Calculated =>
        LET sys == result.system
            wh  == TotalEnergy(appliances)
            pw  == TotalWatts(appliances)
            paid(kind, count, item) == IF HasKind(catalog, kind) THEN count * item.price ELSE 0
        IN  /\ sys.inverterCount \in Nat /\ sys.batteryCount \in Nat /\ sys.panelCount \in Nat
            /\ ~HasKind(catalog, "inverter") =>
                  /\ sys.inverter = undefined
                  /\ sys.inverterCount = CeilQ(84 * pw, 100 * 5000)
            /\ ~HasKind(catalog, "battery") =>
                  /\ sys.battery = undefined
                  /\ sys.batteryCount = CeilQ(6 * wh, 10 * 4800)
            /\ ~HasKind(catalog, "panel") =>
                  /\ sys.panel = undefined
                  /\ sys.panelCount = CeilQ(13 * wh, 45 * 550)
            /\ result.financials.totalCost
                 = paid("inverter", sys.inverterCount, sys.inverter)
                   + paid("battery", sys.batteryCount, sys.battery)
                   + paid("panel", sys.panelCount, sys.panel)
                   + installCost(catalog)

\* C11 witness: no inverter, battery or panel in the catalog, and a load that
\* needs several units of each fallback spec.
C11_Witness ==
    /\ Calculated
    /\ ~HasKind(catalog, "inverter") /\ ~HasKind(catalog, "battery") /\ ~HasKind(catalog, "panel")
    /\ result.system.inverterCount = 2
    /\ result.system.batteryCount = 6
    /\ result.system.panelCount = 26
    /\ result.financials.totalCost = installCost(catalog)

\* C12: totalAnnualSavings = monthlyBill x 12 + (fuelCost x 12) x 0.9, whatever
\* the appliance list and the catalog; bill 50000 and fuel 30000 give 924000.
C12_AnnualSavings ==
    Calculated =>
        LET s == result.financials.totalAnnualSavings
        IN  /\ IsFinite(s)
            /\ 10 * s.n = (120 * monthlyBill + 108 * fuelCost) * s.d
            /\ (monthlyBill = 50000 /\ fuelCost = 30000) => s = Num(924000)

\* C12 witness: the default bill and fuel cost with demand and a catalog.
C12_Witness ==
    /\ Calculated
    /\ monthlyBill = 50000 /\ fuelCost = 30000
    /\ appliances # <<>> /\ catalog # <<>>
    /\ result.financials.totalAnnualSavings = Num(924000)

\* What a division by zero produces: Infinity, -Infinity or NaN.
DivisionByZeroOutcomes == { Frac(1, 0), Frac(-1, 0), Frac(0, 0) }

\* C13 (as stated): when totalAnnualSavings is 0 the division is guarded:
\* roiYears is not the outcome of a division by zero.
C13_GuardedPayback ==
    (Calculated /\ result.financials.totalAnnualSavings = Num(0)) =>
        result.financials.roiYears \notin DivisionByZeroOutcomes

\* The installation cost the engine uses: the price of the first
\* installation item unless that is missing or 0, and 150000 then.
EngineInstallCost(cat) ==
    IF HasKind(cat, "installation") /\ FirstOfKind(cat, "installation").price # 0
    THEN FirstOfKind(cat, "installation").price
    ELSE 150000

\* C14: for an empty appliance list dailyWh = 0, designedPeakLoad = 0, the
\* three counts are 0 and totalCost is the installation cost.
C14_EmptyDemand ==
    (Calculated /\ appliances = <<>>) =>
        /\ result.details.dailyWh = 0
        /\ result.details.designedPeakLoad = Num(0)
        /\ result.system.inverterCount = 0
        /\ result.system.batteryCount = 0
        /\ result.system.panelCount = 0
        /\ result.financials.totalCost = EngineInstallCost(catalog)

\* C14 witness: no appliances, and a catalog with priced equipment of each kind.
C14_Witness ==
    /\ Calculated
    /\ appliances = <<>>
    /\ HasKind(catalog, "inverter") /\ HasKind(catalog, "battery") /\ HasKind(catalog, "panel")
    /\ result.financials.totalCost = 150000

\* The list with one more unit of count, or one more hour, for appliance i.
MoreCount(apps, i) == [apps EXCEPT ![i].count = @ + 1]
MoreHours(apps, i) == [apps EXCEPT ![i].hours = @ + 1]
Increased(apps) ==
    { MoreCount(apps, i) : i \in 1..Len(apps) } \cup { MoreHours(apps, i) : i \in 1..Len(apps) }

\* The result for the same bill, fuel cost and catalog and another list.
ResultFor(apps) == calculateSolarSystem(monthlyBill, fuelCost, apps, catalog)

\* C16 (as stated): increasing one appliance's count or hours never decreases
\* dailyWh, the designed peak load or totalCost.
C16_Monotone ==
    Calculated =>
        \A more \in Increased(appliances) :
            LET r == ResultFor(more)
            IN  /\ r.details.dailyWh >= result.details.dailyWh
                /\ Geq(r.details.designedPeakLoad, result.details.designedPeakLoad)
                /\ r.financials.totalCost >= result.financials.totalCost

\* C16 (amended): increasing one appliance's count or hours never decreases
\* dailyWh or the designed peak load, and never decreases totalCost when the
\* engine chooses the same inverter item for the larger load.
C16_MonotoneSameInverter ==
    Calculated =>
        \A more \in Increased(appliances) :
            LET r == ResultFor(more)
            IN  /\ r.details.dailyWh >= result.details.dailyWh
                /\ Geq(r.details.designedPeakLoad, result.details.designedPeakLoad)
                /\ r.system.inverter = result.system.inverter =>
                      r.financials.totalCost >= result.financials.totalCost

\* C16 witness: a catalog with two different inverters where one more unit
\* keeps the chosen inverter and raises dailyWh, the peak load and totalCost.
C16_Witness ==
    /\ Calculated
    /\ \E i, j \in ofType(catalog, "inverter") : catalog[i].spec # catalog[j].spec
    /\ \E i \in 1..Len(appliances) :
          LET r == ResultFor(MoreCount(appliances, i))
          IN  /\ r.system.inverter = result.system.inverter
              /\ r.details.dailyWh > result.details.dailyWh
              /\ r.details.designedPeakLoad # result.details.designedPeakLoad
              /\ r.financials.totalCost > result.financials.totalCost

\* The catalog rearranged by the permutation p of its indices.
Reordered(cat, p) == [i \in 1..Len(cat) |-> cat[p[i]]]

\* C17 (as stated): two catalogs that are permutations of each other and have
\* the same first battery item and the same first panel item give the same
\* chosen inverter, the same counts and the same totalCost.
C17_OrderOnlyThroughBatteryAndPanel ==
    Calculated =>
        \A p \in Permutations(1..Len(catalog)) :
            LET other == Reordered(catalog, p)
                r     == calculateSolarSystem(monthlyBill, fuelCost, appliances, other)
            IN  (/\ FirstOfKind(other, "battery") = FirstOfKind(catalog, "battery")
                 /\ FirstOfKind(other, "panel") = FirstOfKind(catalog, "panel")) =>
                    /\ r.system.inverter = result.system.inverter
                    /\ r.system.inverterCount = result.system.inverterCount
                    /\ r.system.batteryCount = result.system.batteryCount
                    /\ r.system.panelCount = result.system.panelCount
                    /\ r.financials.totalCost = result.financials.totalCost

\* C22: when some inverter item of the catalog has a positive spec of at
\* least requiredInverterVA, at most one inverter is recommended, and exactly
\* one when the load is positive; more than one inverter is recommended only
\* when no inverter item covers the load.
C22_OneInverterWhenCovered ==
    Calculated =>
        LET covered == \E i \in Qualifying(catalog, appliances) : catalog[i].spec > 0
        IN  /\ covered => result.system.inverterCount <= 1
            /\ (covered /\ TotalWatts(appliances) > 0) => result.system.inverterCount = 1
            /\ result.system.inverterCount > 1 => ~covered

\* C22 witness: a positive load that the second inverter of the catalog
\* covers and the first one does not.
C22_Witness ==
    /\ Calculated
    /\ TotalWatts(appliances) > 0
    /\ Len(catalog) >= 2
    /\ catalog[1].type = "inverter" /\ ~Qualifies(catalog[1], appliances)
    /\ Qualifies(catalog[2], appliances)
    /\ result.system.inverterCount = 1

\* C23: with prices and counts >= 0 the installation cost (totalCost less
\* the equipment cost) and totalCost are positive, so roiYears is never NaN:
\* it is finite and positive when the savings are positive and +Infinity
\* when they are 0.
C23_PaybackNeverNaN ==
    Calculated =>
        LET cost    == result.financials.totalCost
            savings == result.financials.totalAnnualSavings
            roi     == result.financials.roiYears
        IN  /\ cost - ResultEquipmentCost(result) > 0
            /\ cost > 0
            /\ roi # Frac(0, 0)
            /\ (IsFinite(savings) /\ savings.n > 0) => (IsFinite(roi) /\ roi.n > 0)
            /\ savings = Num(0) => roi = Frac(1, 0)

\* C23 witness: no savings, no load and an installation item priced 0.
C23_Witness ==
    /\ Calculated
    /\ appliances = <<>>
    /\ HasKind(catalog, "installation")
    /\ FirstOfKind(catalog, "installation").price = 0
    /\ result.financials.totalAnnualSavings = Num(0)
    /\ result.financials.roiYears = Frac(1, 0)

\* ------------------------------------------------- the calculator wizard
\* Bounds of the wizard model: the largest count or hours value a "+"
\* button is pressed up to, the number of handleCalculate runs that wait
\* for their timer at once, and the number of leads the store grows to.
MaxUnits == 2
MaxPending == 2
MaxLeads == 2

\* DEFAULT_CATALOG, in its order (names left out).
DEFAULT_CATALOG ==
    << [id |-> "1", type |-> "panel",        spec |-> 550,  price |-> 85000],
       [id |-> "2", type |-> "inverter",     spec |-> 5000, price |-> 650000],
       [id |-> "3", type |-> "battery",      spec |-> 5000, price |-> 1200000],
       [id |-> "4", type |-> "installation", spec |-> 1,    price |-> 150000] >>

\* newItems with the edited items moved to the front.
newItems_editedFirst(its, id, field, val) ==
    LET hit  == { i \in 1..Len(its) : its[i].id = id }
        rest == { i \in 1..Len(its) : its[i].id # id }
        pick(S, k) == CHOOSE i \in S : Cardinality({ j \in S : j < i }) = k - 1
    IN  [ k \in 1..Len(its) |->
            IF k <= Cardinality(hit)
            THEN [its[pick(hit, k)] EXCEPT ![field] = val]
            ELSE its[pick(rest, k - Cardinality(hit))] ]

\* newItems of CatalogEditor.handleChange:
\* items.map(i => i.id === id ? {...i, [field]: val} : i).
newItems(its, id, field, val) ==
    [ i \in 1..Len(its) |->
        IF its[i].id = id THEN [its[i] EXCEPT ![field] = val] ELSE its[i] ]

\* Prices the installer types into a "Unit Price" field: the cleared field
\* (Number('') = 0) and another amount.
PriceInputs == { 0, 200000 }

\* Catalogs the wizard runs against: the default one and the ones the
\* installer saved after editing the installation price.
SavedCatalogs ==
    { DEFAULT_CATALOG }
        \cup { newItems(DEFAULT_CATALOG, "4", "price", v) : v \in PriceInputs }

\* The COMMON_APPLIANCES entry offered in the model: the water pump.
COMMON_APPLIANCES == { [id |-> "pump", watts |-> 750, defaultHours |-> 1] }

\* Values typed into the contact form. The bill and generator fields of
\* step 1 are left at their initial values.
ContactInputs ==
    [name |-> {"Ada"}, email |-> {"ada@example.com"}, phone |-> {"0800"}]

\* Variant: "Confirm Load" is rendered for every selection.
totalWatts_alwaysPositive(sel) == peakWatts(sel) + 1

\* Step 2 of the wizard: totalWatts of the selection.
totalWatts(sel) == peakWatts(sel)

\* Variant: only the name is asked for.
detailsMissing_nameOnly(contact) == contact.name = ""

\* handleCalculate: !contactData.name || !contactData.email
detailsMissing(contact) == contact.name = "" \/ contact.email = ""

\* Math.round on a finite fraction: the nearest integer, halves upwards.
MathRound(a) == (2 * a.n + a.d) \div (2 * a.d)

\* `${(calc.system.inverter?.spec || 0)/1000}kVA`: the number and its suffix.
systemSize(inv) ==
    [number |-> Div(Num(specOr(inv, 0)), Num(1000)), unit |-> "kVA"]

\* The lead handleCalculate builds (its random id and its date left out).
newLead(calc, contact) ==
    [ name        |-> contact.name,
      email       |-> contact.email,
      phone       |-> contact.phone,
      consumption |-> MathRound(Div(Num(calc.details.dailyWh), Num(1000))),
      systemSize  |-> systemSize(calc.system.inverter),
      totalCost   |-> calc.financials.totalCost,
      status      |-> "New" ]

\* addLead with the lead put last.
addLead_appended(prev, lead) == Append(prev, lead)

\* addLead that drops a lead equal to the newest one.
addLead_deduplicated(prev, lead) ==
    IF prev # <<>> /\ Head(prev) = lead THEN prev ELSE <<lead>> \o prev

\* addLead: setLeads(prev => [lead, ...prev]).
addLead(prev, lead) == <<lead>> \o prev

\* A freshly mounted CalculatorPage over a saved catalog.
InitWizard ==
    /\ monthlyBill = 50000
    /\ fuelCost = 30000
    /\ appliances = <<>>
    /\ catalog \in SavedCatalogs
    /\ result = null
    /\ step = 1
    /\ contactData = noContact
    /\ leads = <<>>
    /\ pendingCalcs = <<>>
    /\ items = catalog
    /\ pendingSaves = <<>>
    /\ ShellIdle("/calculator", null)

\* Step 1: "Continue".
step1Continue ==
    /\ step = 1
    /\ step' = 2
    /\ UNCHANGED engineVars
    /\ UNCHANGED <<contactData, leads, pendingCalcs, items, pendingSaves>>
    /\ UNCHANGED shellVars

\* The selection toggleAppliance(app) sets: without app when it is
\* selected, and with { ...app, count: 1, hours: app.defaultHours } at the
\* end when it is not.
toggled(sel, app) ==
    LET exists == \E i \in 1..Len(sel) : sel[i].id = app.id
    IN  IF exists
        THEN SelectSeq(sel, LAMBDA a : a.id # app.id)
        ELSE Append(sel, [id |-> app.id, watts |-> app.watts,
                          defaultHours |-> app.defaultHours,
                          count |-> 1, hours |-> app.defaultHours])

\* Variant: the new value is stored whatever it is.
updated_unchecked(sel, id, field, delta) ==
    [ i \in 1..Len(sel) |->
        IF sel[i].id # id THEN sel[i]
        ELSE [sel[i] EXCEPT ![field] = sel[i][field] + delta] ]

\* The selection updateAppliance(id, field, delta) sets.
updated(sel, id, field, delta) ==
    [ i \in 1..Len(sel) |->
        LET item   == sel[i]
            newVal == item[field] + delta
        IN  IF item.id # id THEN item
            ELSE IF newVal < 1 THEN item
            ELSE [item EXCEPT ![field] = newVal] ]

\* Step 2: a tile of the appliance grid.
toggleAppliance ==
    /\ step = 2
    /\ \E app \in COMMON_APPLIANCES : appliances' = toggled(appliances, app)
    /\ UNCHANGED <<monthlyBill, fuelCost, catalog, result>>
    /\ UNCHANGED appVars
    /\ UNCHANGED shellVars

\* Step 2: a "+" or "-" button of a selected appliance.
updateAppliance ==
    /\ step = 2
    /\ \E k \in 1..Len(appliances), field \in {"count", "hours"}, delta \in {1, -1} :
          /\ appliances[k][field] + delta <= MaxUnits
          /\ appliances' = updated(appliances, appliances[k].id, field, delta)
    /\ UNCHANGED <<monthlyBill, fuelCost, catalog, result>>
    /\ UNCHANGED appVars
    /\ UNCHANGED shellVars

\* Step 2: "Confirm Load", rendered only while totalWatts > 0.
step2Confirm ==
    /\ step = 2
    /\ totalWatts(appliances) > 0
    /\ step' = 3
    /\ UNCHANGED engineVars
    /\ UNCHANGED <<contactData, leads, pendingCalcs, items, pendingSaves>>
    /\ UNCHANGED shellVars

\* Step 3: a field of the contact form.
setContactData ==
    /\ step = 3
    /\ \E field \in {"name", "email", "phone"} :
          \E v \in ContactInputs[field] :
              /\ v # contactData[field]
              /\ contactData' = [contactData EXCEPT ![field] = v]
    /\ UNCHANGED engineVars
    /\ UNCHANGED <<step, leads, pendingCalcs, items, pendingSaves>>
    /\ UNCHANGED shellVars

\* Step 3: "Back to Appliances".
step3Back ==
    /\ step = 3
    /\ step' = 2
    /\ UNCHANGED engineVars
    /\ UNCHANGED <<contactData, leads, pendingCalcs, items, pendingSaves>>
    /\ UNCHANGED shellVars

\* Step 3: the Reveal button, disabled while loading. Without a name or an
\* email only an error toast is raised; otherwise the run keeps the values of the render it was
\* clicked in and waits for its 2 s timer.
handleCalculate ==
    /\ step = 3
    /\ ~loading
    /\ IF detailsMissing(contactData)
       THEN UNCHANGED pendingCalcs
       ELSE /\ Len(pendingCalcs) < MaxPending
            /\ Len(leads) + Len(pendingCalcs) < MaxLeads
            /\ pendingCalcs' =
                  Append(pendingCalcs,
                         [financeData        |-> [bill |-> monthlyBill, fuel |-> fuelCost],
                          selectedAppliances |-> appliances,
                          catalog            |-> catalog,
                          contactData        |-> contactData])
    /\ UNCHANGED engineVars
    /\ UNCHANGED <<step, contactData, leads, items, pendingSaves>>
    /\ UNCHANGED shellVars

\* The timer of the oldest waiting run has elapsed: the .then callback,
\* and the save effect of the render that follows setLeads.
calculationDone ==
    /\ pendingCalcs # <<>>
    /\ LET run  == Head(pendingCalcs)
           calc == calculateSolarSystem(run.financeData.bill, run.financeData.fuel,
                                        run.selectedAppliances, run.catalog)
       IN  /\ result' = calc
           /\ leads' = addLead(leads, newLead(calc, run.contactData))
    /\ step' = 4
    /\ pendingCalcs' = Tail(pendingCalcs)
    /\ store' = saveEffects(store, {"inverta_leads"}, user, catalog, leads', branding)
    /\ UNCHANGED <<monthlyBill, fuelCost, appliances, catalog>>
    /\ UNCHANGED <<contactData, items, pendingSaves>>
    /\ UNCHANGED <<loading, sessionVars, toastVars>>

NextWizard ==
    \/ step1Continue
    \/ toggleAppliance
    \/ updateAppliance
    \/ step2Confirm
    \/ setContactData
    \/ step3Back
    \/ handleCalculate
    \/ calculationDone

SpecWizard == InitWizard /\ [][NextWizard]_vars

\* A timer that was set fires: the oldest waiting run does not wait for
\* ever. Of the wizard's actions only calculationDone is such a step.
timerFires ==
    /\ pendingCalcs # <<>>
    /\ pendingCalcs' = Tail(pendingCalcs)

SpecWizardLive == InitWizard /\ [][NextWizard]_vars /\ WF_pendingCalcs(timerFires)

\* formatNaira on a whole amount: the currency and the digits shown.
formatNaira(amount) == [currency |-> "NGN", units |-> amount]

\* The amount the Investment Breakdown subtracts and shows.
ShownInstallation == 150000

\* Investment Breakdown, "Equipment Cost" and "Installation & Logistics".
shownEquipmentCost(r) == formatNaira(r.financials.totalCost - ShownInstallation)
shownInstallation == formatNaira(ShownInstallation)

\* C18: every completed calculation adds exactly one lead; the lead is put
\* at the head of the list and the leads already there keep their places
\* and values; its name, email and phone are the submitted contact values,
\* its consumption is dailyWh / 1000 rounded to the nearest integer (halves
\* upwards), its systemSize is the chosen inverter's spec / 1000 (0 without
\* an inverter) followed by "kVA", its totalCost is the result's totalCost
\* and its status is 'New'.
C18_LeadAdded ==
    [][ /\ Len(pendingCalcs') < Len(pendingCalcs) => Len(leads') = Len(leads) + 1
        /\ leads' # leads =>
             LET l == Head(leads')
                 r == result'
                 c == Head(pendingCalcs).contactData
             IN  /\ Len(leads') = Len(leads) + 1
                 /\ Tail(leads') = leads
                 /\ l.name = c.name /\ l.email = c.email /\ l.phone = c.phone
                 /\ 2000 * l.consumption <= 2 * r.details.dailyWh + 1000
                 /\ 2 * r.details.dailyWh + 1000 < 2000 * (l.consumption + 1)
                 /\ l.systemSize.unit = "kVA"
                 /\ Mul(l.systemSize.number, Num(1000))
                       = Num(IF r.system.inverter = undefined THEN 0
                             ELSE r.system.inverter.spec)
                 /\ l.totalCost = r.financials.totalCost
                 /\ l.status = "New"
      ]_vars

\* A second lead (1500 Wh, rounded up to 2 kWh, phone given) stands before
\* the first one (750 Wh, 1 kWh, no phone).
C18_Witness ==
    /\ step = 4
    /\ pendingCalcs = <<>>
    /\ Len(leads) = 2
    /\ result.details.dailyWh = 1500
    /\ leads[1].consumption = 2 /\ leads[1].phone = "0800"
    /\ leads[1].totalCost = result.financials.totalCost
    /\ leads[2].consumption = 1 /\ leads[2].phone = ""

\* C19: on the results page the shown Equipment Cost is the cost of the
\* result's inverters, batteries and panels, and the shown Installation &
\* Logistics is the rest of totalCost, the installation cost the engine used.
C19_BreakdownShowsEngineCosts ==
    (step = 4 /\ result # null) =>
        /\ shownEquipmentCost(result) = formatNaira(ResultEquipmentCost(result))
        /\ shownInstallation
              = formatNaira(result.financials.totalCost - ResultEquipmentCost(result))

\* C24: the loading flag is never set, so Reveal is never disabled; a click
\* with a name and an email adds one waiting run behind the runs that wait
\* already; and every run that was started ends in a lead of its own: once
\* n runs have been started, the lead list grows to n leads.
C24_EveryClickGivesALead ==
    /\ [](loading = FALSE)
    /\ [][ (step = 3 /\ contactData.name # "" /\ contactData.email # ""
               /\ pendingCalcs' # pendingCalcs /\ leads' = leads)
            => (/\ Len(pendingCalcs') = Len(pendingCalcs) + 1
                /\ SubSeq(pendingCalcs', 1, Len(pendingCalcs)) = pendingCalcs
                /\ pendingCalcs'[Len(pendingCalcs')].contactData = contactData
                /\ pendingCalcs'[Len(pendingCalcs')].selectedAppliances = appliances)
         ]_vars
    /\ \A n \in 1..MaxLeads :
          (Len(leads) + Len(pendingCalcs) >= n) ~> (Len(leads) >= n)

\* C24 witness: two clicks within one delay have given two equal leads.
C24_Witness ==
    /\ pendingCalcs = <<>>
    /\ Len(leads) = 2
    /\ leads[1] = leads[2]
    /\ step = 4

\* C26: step 4 is entered only when a run that was started with a name and
\* an email is completed, and the result is set by then; so on step 4 there
\* is a result, and no step leaves step 4.
C26_ResultsOnlyAfterCalculation ==
    /\ [](step = 4 => result # null)
    /\ [][ (step # 4 /\ step' = 4)
            => (/\ pendingCalcs # <<>>
                /\ pendingCalcs' = Tail(pendingCalcs)
                /\ Head(pendingCalcs).contactData.name # ""
                /\ Head(pendingCalcs).contactData.email # ""
                /\ result' # null)
         ]_vars
    /\ [][ step = 4 => step' = 4 ]_vars

\* C26 witness: the results are shown while a second run still waits.
C26_Witness ==
    /\ step = 4
    /\ result # null
    /\ pendingCalcs # <<>>
    /\ Head(pendingCalcs).contactData.email # ""

\* C27: on step 3 the selection has positive total watts and is not
\* changed; every waiting run holds a non-empty selection of positive total
\* watts; and a lead is added together with a result that was computed from
\* the selection its run was started with and has all three counts >= 1.
C27_CalculationsHaveLoad ==
    /\ [](step = 3 => TotalWatts(appliances) > 0)
    /\ [](\A i \in 1..Len(pendingCalcs) :
            /\ pendingCalcs[i].selectedAppliances # <<>>
            /\ TotalWatts(pendingCalcs[i].selectedAppliances) > 0)
    /\ [][ step = 3 => appliances' = appliances ]_vars
    /\ [][ (step = 3 /\ Len(pendingCalcs') > Len(pendingCalcs))
            => pendingCalcs'[Len(pendingCalcs')].selectedAppliances = appliances ]_vars
    /\ [][ leads' # leads
            => (/\ result'.details.dailyWh
                      = TotalEnergy(Head(pendingCalcs).selectedAppliances)
                /\ result'.system.inverterCount >= 1
                /\ result'.system.batteryCount >= 1
                /\ result'.system.panelCount >= 1)
         ]_vars

\* C27 witness: the results of a run are shown after the customer went
\* back and cleared the selection while the run was waiting.
C27_Witness ==
    /\ step = 4
    /\ appliances = <<>>
    /\ leads # <<>>
    /\ result # null
    /\ result.system.panelCount >= 1

\* ------------------------------------------------ the appliance selection
\* Step 2 of the wizard on its own, with two tiles of the grid: the water
\* pump and the TV.
GridAppliances ==
    { [id |-> "pump", watts |-> 750, defaultHours |-> 1],
      [id |-> "tv",   watts |-> 100, defaultHours |-> 6] }

InitSelection ==
    /\ monthlyBill = 50000
    /\ fuelCost = 30000
    /\ appliances = <<>>
    /\ catalog = DEFAULT_CATALOG
    /\ result = null
    /\ step = 2
    /\ contactData = noContact
    /\ leads = <<>>
    /\ pendingCalcs = <<>>
    /\ items = catalog
    /\ pendingSaves = <<>>
    /\ ShellIdle("/calculator", null)

\* A tile of the grid is clicked: toggleAppliance(app).
tileClicked ==
    /\ step = 2
    /\ \E app \in GridAppliances : appliances' = toggled(appliances, app)
    /\ UNCHANGED <<monthlyBill, fuelCost, catalog, result>>
    /\ UNCHANGED appVars
    /\ UNCHANGED shellVars

\* A "+" or "-" button is clicked: updateAppliance(item.id, field, +-1).
plusMinusClicked ==
    /\ step = 2
    /\ \E k \in 1..Len(appliances), field \in {"count", "hours"}, delta \in {1, -1} :
          /\ appliances[k][field] + delta <= MaxUnits \/ delta = -1
          /\ appliances' = updated(appliances, appliances[k].id, field, delta)
    /\ UNCHANGED <<monthlyBill, fuelCost, catalog, result>>
    /\ UNCHANGED appVars
    /\ UNCHANGED shellVars

NextSelection == tileClicked \/ plusMinusClicked

SpecSelection == InitSelection /\ [][NextSelection]_vars

\* The ids of a selection, and the selection without an id.
IdsOf(sel) == { sel[i].id : i \in 1..Len(sel) }
Without(sel, id) == SelectSeq(sel, LAMBDA a : a.id # id)

\* C28: every selected appliance has count >= 1 and hours >= 1 and no id
\* occurs twice; an update keeps the length of the selection and every
\* appliance of another id, leaves the selection as it is when the field
\* would fall below 1, and adds delta to the field otherwise; toggling a
\* selected appliance removes it and nothing else, and selecting it again
\* puts it last with count 1 and hours = defaultHours.
C28_SelectionWellFormed ==
    /\ \A i \in 1..Len(appliances) : appliances[i].count >= 1 /\ appliances[i].hours >= 1
    /\ \A i, j \in 1..Len(appliances) : i # j => appliances[i].id # appliances[j].id
    /\ \A i \in 1..Len(appliances), field \in {"count", "hours"}, delta \in {1, -1} :
          LET id == appliances[i].id
              n  == updated(appliances, id, field, delta)
          IN  /\ Len(n) = Len(appliances)
              /\ \A j \in 1..Len(appliances) : appliances[j].id # id => n[j] = appliances[j]
              /\ appliances[i][field] + delta < 1 => n = appliances
              /\ appliances[i][field] + delta >= 1 =>
                    /\ n[i][field] = appliances[i][field] + delta
                    /\ \A f \in (DOMAIN n[i]) \ {field} : n[i][f] = appliances[i][f]
    /\ \A app \in GridAppliances :
          LET t == toggled(appliances, app)
          IN  IF app.id \in IdsOf(appliances)
              THEN /\ app.id \notin IdsOf(t)
                   /\ t = Without(appliances, app.id)
                   /\ LET again == toggled(t, app)
                       IN  /\ Len(again) = Len(appliances)
                           /\ again[Len(again)].id = app.id
                           /\ again[Len(again)].count = 1
                           /\ again[Len(again)].hours = app.defaultHours
              ELSE /\ Len(t) = Len(appliances) + 1
                   /\ SubSeq(t, 1, Len(appliances)) = appliances
                   /\ t[Len(t)].id = app.id /\ t[Len(t)].watts = app.watts
                   /\ t[Len(t)].count = 1 /\ t[Len(t)].hours = app.defaultHours

\* C28 witness: both appliances are selected, the TV first, with its hours
\* taken down to 1 and two pumps.
C28_Witness ==
    /\ Len(appliances) = 2
    /\ appliances[1].id = "tv" /\ appliances[1].hours = 1
    /\ appliances[2].id = "pump" /\ appliances[2].count = 2

\* --------------------------------------------------- the catalog editor
\* Bound of the editor model: handleSave runs that wait for their timer.
MaxSaves == 1

\* Rows of the table whose price the installer edits in the model.
EditedIds == { "2", "4" }

\* The dashboard with the catalog tab open over the default catalog.
InitCatalog ==
    /\ monthlyBill = 50000
    /\ fuelCost = 30000
    /\ appliances = <<>>
    /\ catalog = DEFAULT_CATALOG
    /\ result = null
    /\ step = 1
    /\ contactData = noContact
    /\ leads = <<>>
    /\ pendingCalcs = <<>>
    /\ items = catalog
    /\ pendingSaves = <<>>
    /\ ShellIdle("/dashboard", loggedIn("installer@solar.ng"))

\* A "Unit Price" field is changed: handleChange(item.id, 'price', Number(...)).
handleChange ==
    /\ \E id \in EditedIds, val \in PriceInputs :
          /\ \E i \in 1..Len(items) : items[i].id = id /\ items[i].price # val
          /\ items' = newItems(items, id, "price", val)
    /\ UNCHANGED engineVars
    /\ UNCHANGED <<step, contactData, leads, pendingCalcs, pendingSaves>>
    /\ UNCHANGED shellVars

\* "Save Changes": the run keeps the items of the render it was clicked in
\* and waits for its 1 s timer.
handleSave ==
    /\ Len(pendingSaves) < MaxSaves
    /\ pendingSaves' = Append(pendingSaves, items)
    /\ UNCHANGED engineVars
    /\ UNCHANGED <<step, contactData, leads, pendingCalcs, items>>
    /\ UNCHANGED shellVars

\* The timer of the oldest waiting save has elapsed: updateCatalog(items).
\* App renders again, DashboardPage with it, and the CatalogEditor defined
\* inside DashboardPage is mounted anew with useState(catalog); the save
\* effect of that render writes the catalog.
updateCatalog ==
    /\ pendingSaves # <<>>
    /\ catalog' = Head(pendingSaves)
    /\ items' = catalog'
    /\ pendingSaves' = Tail(pendingSaves)
    /\ store' = saveEffects(store, {"inverta_catalog"}, user, catalog', leads, branding)
    /\ UNCHANGED <<monthlyBill, fuelCost, appliances, result>>
    /\ UNCHANGED <<step, contactData, leads, pendingCalcs>>
    /\ UNCHANGED <<loading, sessionVars, toastVars>>

\* The installer leaves the catalog tab and comes back: the editor is
\* mounted anew and the unsaved edits are gone.
setActiveTab ==
    /\ items # catalog
    /\ items' = catalog
    /\ UNCHANGED engineVars
    /\ UNCHANGED <<step, contactData, leads, pendingCalcs, pendingSaves>>
    /\ UNCHANGED shellVars

NextCatalog ==
    \/ handleChange
    \/ handleSave
    \/ updateCatalog
    \/ setActiveTab

SpecCatalog == InitCatalog /\ [][NextCatalog]_vars

\* Two item lists agree in length and, position by position, in id, type
\* and spec.
SameShape(a, b) ==
    /\ Len(a) = Len(b)
    /\ \A i \in 1..Len(a) :
          a[i].id = b[i].id /\ a[i].type = b[i].type /\ a[i].spec = b[i].spec

\* Two item lists of the same shape differ at one id only.
DifferAtOneId(a, b) ==
    \E id \in { a[i].id : i \in 1..Len(a) } :
        \A i \in 1..Len(a) : a[i].id # id => a[i] = b[i]

\* C20: whatever is edited and saved, the catalog and the editor's items
\* keep the number, the order and the id, type and spec of the items of the
\* catalog before; a single edit changes the items of one id only, and a
\* save stores the edited items as they are.
C20_StableOrder ==
    /\ [](SameShape(catalog, DEFAULT_CATALOG) /\ SameShape(items, DEFAULT_CATALOG))
    /\ [][ /\ (items' # items /\ catalog' = catalog /\ items' # catalog)
              => DifferAtOneId(items, items')
           /\ catalog' # catalog
              => (SameShape(catalog', catalog) /\ catalog' = Head(pendingSaves))
         ]_vars

\* Both edited prices have been saved, one of them after the other.
C20_Witness ==
    /\ pendingSaves = <<>>
    /\ items = catalog
    /\ catalog[2].price = 200000
    /\ catalog[4].price = 0
    /\ catalog[1] = DEFAULT_CATALOG[1]
    /\ catalog[3] = DEFAULT_CATALOG[3]

\* ------------------------------------------------- startup, routing, session
\* Bound of the session model: handleLogin runs that wait for their timer.
MaxLogins == 2

Routes == { "/", "/login", "/dashboard", "/calculator" }

\* Variant: the dashboard is rendered for its route whoever asks.
CurrentComponent_unguarded(path, u) ==
    IF path = "/login" THEN "AuthPage"
    ELSE IF path = "/dashboard" THEN "DashboardPage"
    ELSE IF path = "/calculator" THEN "CalculatorPage"
    ELSE "LandingPage"

\* The router of App: the page rendered for a route and a user.
CurrentComponent(path, u) ==
    IF path = "/login" THEN "AuthPage"
    ELSE IF path = "/dashboard" THEN (IF u # null THEN "DashboardPage" ELSE "AuthPage")
    ELSE IF path = "/calculator" THEN "CalculatorPage"
    ELSE "LandingPage"

\* What an earlier session may have left in the store.
storedUser == loggedIn("ada@suntap.ng")
storedLead ==
    [ name |-> "Bola", email |-> "bola@example.com", phone |-> "",
      consumption |-> 1, systemSize |-> systemSize(DEFAULT_CATALOG[2]),
      totalCost |-> 2085000, status |-> "New" ]
storedBranding == [DEFAULT_BRANDING EXCEPT !.companyName = "Suntap Energy Ltd."]

\* The stores App may find: nothing (first visit), or what the save effects
\* of an earlier session wrote, with or without a user.
StoredStores ==
    { emptyStore } \cup
    { Persisted(u, c, l, b) :
        u \in { null, storedUser },
        c \in { DEFAULT_CATALOG, newItems(DEFAULT_CATALOG, "4", "price", 200000) },
        l \in { <<>>, <<storedLead>> },
        b \in { DEFAULT_BRANDING, storedBranding } }

\* The first render of App is committed, its effects have not run yet.
InitApp ==
    /\ monthlyBill = 50000
    /\ fuelCost = 30000
    /\ appliances = <<>>
    /\ catalog = DEFAULT_CATALOG
    /\ result = null
    /\ step = 1
    /\ contactData = noContact
    /\ leads = <<>>
    /\ pendingCalcs = <<>>
    /\ items = catalog
    /\ pendingSaves = <<>>
    /\ loading = FALSE
    /\ user = null
    /\ route = "/"
    /\ branding = DEFAULT_BRANDING
    /\ store \in StoredStores
    /\ phase = "mounted"
    /\ queued = null
    /\ authLoading = FALSE
    /\ pendingLogins = <<>>
    /\ toasts = <<>>
    /\ nextToastId = 1
    /\ toastPromises = <<>>

\* The load effect: for each key that is stored, the parsed value is handed
\* to the key's setState; the state itself changes with the next render.
loadEffect ==
    /\ phase = "mounted"
    /\ queued' = [ k \in StoreKeys |->
                     IF getItem(store, k) # null
                     THEN [value |-> JSONparse(getItem(store, k))]
                     ELSE null ]
    /\ phase' = "loaded"
    /\ UNCHANGED engineVars
    /\ UNCHANGED appVars
    /\ UNCHANGED <<loading, store, user, route, branding, authLoading, pendingLogins>>
    /\ UNCHANGED toastVars

\* The four save effects of the mount pass, over the state of the first
\* render.
mountSaveEffects ==
    /\ phase = "loaded"
    /\ store' = saveEffects(store, StoreKeys, user, catalog, leads, branding)
    /\ phase' = "saved"
    /\ UNCHANGED engineVars
    /\ UNCHANGED appVars
    /\ UNCHANGED <<loading, user, route, branding, queued, authLoading, pendingLogins>>
    /\ UNCHANGED toastVars

\* Variant: no save effect runs again after the load.
changedDeps_none(q) == {}

\* The keys whose state was set by the load effect: the parsed value is a
\* new object, so the dependency of the key's save effect has changed.
changedDeps(q) == { k \in StoreKeys : q[k] # null }

\* The render that takes up the queued updates, and the save effects of the
\* keys whose state changed.
render ==
    /\ phase = "saved"
    /\ user'     = IF queued["inverta_user"] # null THEN queued["inverta_user"].value ELSE user
    /\ catalog'  = IF queued["inverta_catalog"] # null THEN queued["inverta_catalog"].value ELSE catalog
    /\ leads'    = IF queued["inverta_leads"] # null THEN queued["inverta_leads"].value ELSE leads
    /\ branding' = IF queued["inverta_branding"] # null THEN queued["inverta_branding"].value ELSE branding
    /\ store' = saveEffects(store, changedDeps(queued), user', catalog', leads', branding')
    /\ queued' = null
    /\ phase' = "ready"
    /\ UNCHANGED <<monthlyBill, fuelCost, appliances, result>>
    /\ UNCHANGED <<step, contactData, pendingCalcs, items, pendingSaves>>
    /\ UNCHANGED <<loading, route, authLoading, pendingLogins>>
    /\ UNCHANGED toastVars

\* The buttons of a page that call navigate, by page and target.
NavigateButtons(page, u) ==
    CASE page = "LandingPage"    -> { "/login", "/calculator" }
      [] page = "AuthPage"       -> { "/" }
      [] page = "DashboardPage"  -> { "/calculator" }
      [] page = "CalculatorPage" -> IF u # null THEN { "/dashboard" } ELSE {}

\* AuthPage.loading after a render: kept while the AuthPage stays mounted,
\* false in a newly mounted one.
authLoadingAfter(path, u) ==
    IF CurrentComponent(route, user) = "AuthPage" /\ CurrentComponent(path, u) = "AuthPage"
    THEN authLoading
    ELSE FALSE

\* navigate(path), from a button of the page that is rendered.
navigate ==
    /\ phase = "ready"
    /\ \E path \in NavigateButtons(CurrentComponent(route, user), user) :
          /\ route' = path
          /\ authLoading' = authLoadingAfter(path, user)
    /\ UNCHANGED engineVars
    /\ UNCHANGED appVars
    /\ UNCHANGED <<loading, store, user, branding, phase, queued, pendingLogins>>
    /\ UNCHANGED toastVars

\* The email field of the AuthPage, left as it is initially.
AuthEmail == "installer@solar.ng"

\* AuthPage: the form is submitted; the button is disabled while loading.
handleLogin ==
    /\ phase = "ready"
    /\ CurrentComponent(route, user) = "AuthPage"
    /\ ~authLoading
    /\ Len(pendingLogins) < MaxLogins
    /\ authLoading' = TRUE
    /\ pendingLogins' = Append(pendingLogins, AuthEmail)
    /\ UNCHANGED engineVars
    /\ UNCHANGED appVars
    /\ UNCHANGED <<loading, store, user, route, branding, phase, queued>>
    /\ UNCHANGED toastVars

\* The timer of the oldest waiting login has elapsed: login(email) and
\* navigate('/dashboard'), and the user's save effect.
loginDone ==
    /\ pendingLogins # <<>>
    /\ user' = loggedIn(Head(pendingLogins))
    /\ route' = "/dashboard"
    /\ authLoading' = authLoadingAfter(route', user')
    /\ pendingLogins' = Tail(pendingLogins)
    /\ store' = saveEffects(store, {"inverta_user"}, user', catalog, leads, branding)
    /\ UNCHANGED engineVars
    /\ UNCHANGED appVars
    /\ UNCHANGED <<loading, branding, phase, queued>>
    /\ UNCHANGED toastVars

\* "Sign Out" of the dashboard: logout(), and the user's save effect.
logout ==
    /\ phase = "ready"
    /\ CurrentComponent(route, user) = "DashboardPage"
    /\ user' = null
    /\ route' = "/"
    /\ authLoading' = authLoadingAfter(route', user')
    /\ store' = saveEffects(store, {"inverta_user"}, user', catalog, leads, branding)
    /\ UNCHANGED engineVars
    /\ UNCHANGED appVars
    /\ UNCHANGED <<loading, branding, phase, queued, pendingLogins>>
    /\ UNCHANGED toastVars

NextApp ==
    \/ loadEffect
    \/ mountSaveEffects
    \/ render
    \/ navigate
    \/ handleLogin
    \/ loginDone
    \/ logout

SpecApp == InitApp /\ [][NextApp]_vars

\* Effects that are due run: the mount pass and the render it asks for are
\* not put off for ever.
SpecAppLive ==
    /\ InitApp /\ [][NextApp]_vars
    /\ WF_vars(loadEffect) /\ WF_vars(mountSaveEffects) /\ WF_vars(render)

\* C21: a step that takes the user from logged in to null also sets the
\* route to '/', leaves catalog, leads and branding as they are, and in the
\* store removes inverta_user and leaves the three other keys with their
\* values.
C21_LogoutFrame ==
    [][ (user # null /\ user' = null)
        => (/\ route' = "/"
            /\ catalog' = catalog /\ leads' = leads /\ branding' = branding
            /\ getItem(store', "inverta_user") = null
            /\ \A k \in StoreKeys \ {"inverta_user"} :
                  getItem(store', k) = getItem(store, k) /\ getItem(store', k) # null)
      ]_vars

\* C21 witness: nobody is logged in, the user key is gone and the catalog,
\* the leads and the branding of the session are in place, while the login
\* that had started the session has been used up.
C21_Witness ==
    /\ phase = "ready"
    /\ user = null /\ route = "/"
    /\ getItem(store, "inverta_user") = null
    /\ catalog # DEFAULT_CATALOG /\ leads # <<>> /\ branding # DEFAULT_BRANDING
    /\ getItem(store, "inverta_catalog") = JSONstringify(catalog)
    /\ getItem(store, "inverta_leads") = JSONstringify(leads)
    /\ getItem(store, "inverta_branding") = JSONstringify(branding)

\* The stores that hold a value under each of the four keys.
FullStores == { st \in StoredStores : \A k \in StoreKeys : getItem(st, k) # null }

\* C25: the load effect leaves the store as it found it; from a store that
\* holds all four keys the application comes to rest with that store and
\* with the state read from it; and whenever it is at rest the store
\* mirrors the state, inverta_user being present exactly when there is a
\* user.
C25_StartupKeepsStoredState ==
    /\ [][ phase = "mounted" => store' = store ]_vars
    /\ \A st \in FullStores :
          (phase = "mounted" /\ store = st)
             ~> (/\ phase = "ready"
                 /\ store = st
                 /\ user = JSONparse(getItem(st, "inverta_user"))
                 /\ catalog = JSONparse(getItem(st, "inverta_catalog"))
                 /\ leads = JSONparse(getItem(st, "inverta_leads"))
                 /\ branding = JSONparse(getItem(st, "inverta_branding")))
    /\ [](phase = "ready" =>
            /\ (getItem(store, "inverta_user") # null) <=> (user # null)
            /\ user # null => getItem(store, "inverta_user") = JSONstringify(user)
            /\ getItem(store, "inverta_catalog") = JSONstringify(catalog)
            /\ getItem(store, "inverta_leads") = JSONstringify(leads)
            /\ getItem(store, "inverta_branding") = JSONstringify(branding))

\* C25 witness: at rest right after startup with the stored user, the
\* stored catalog, leads and branding, all four in the store again.
C25_Witness ==
    /\ phase = "ready"
    /\ route = "/" /\ pendingLogins = <<>>
    /\ user = storedUser
    /\ catalog # DEFAULT_CATALOG /\ leads = <<storedLead>> /\ branding = storedBranding
    /\ store = Persisted(storedUser, catalog, leads, branding)

\* C29: the DashboardPage is rendered only for route '/dashboard' with a
\* user; for '/dashboard' without a user the AuthPage is rendered; and a
\* login that completes sets the user of its email and the route
\* '/dashboard', wherever the route was.
C29_RoutingGuard ==
    /\ [](CurrentComponent(route, user) = "DashboardPage"
             => (route = "/dashboard" /\ user # null))
    /\ [](\A path \in Routes :
             /\ CurrentComponent(path, null) # "DashboardPage"
             /\ path = "/dashboard" => CurrentComponent(path, null) = "AuthPage")
    /\ [][ Len(pendingLogins') < Len(pendingLogins)
           => (/\ user' = loggedIn(Head(pendingLogins))
               /\ route' = "/dashboard"
               /\ CurrentComponent(route', user') = "DashboardPage")
         ]_vars

\* C29 witness: the dashboard is shown after a login, and a second login,
\* submitted from a newly mounted AuthPage, still waits.
C29_Witness ==
    /\ CurrentComponent(route, user) = "DashboardPage"
    /\ user = loggedIn(AuthEmail)
    /\ pendingLogins # <<>>

-----------------------------------------------------------------------------
\* The Toaster. Its list is written only by its own 'inverta-toast' listener
\* and by the timers that listener starts, and no handler of a page reads
\* it: the pages' specifications hold it fixed, and this one takes the
\* calls of toast.success, toast.error and toast.promise as its inputs.
\* Ids are Math.random strings in the code; here each toast gets the next
\* number, so two toasts never share an id.

MaxToasts == 4

ToastMessages == {"Link copied to clipboard", "Please enter your details"}

\* The messages of the toast.promise calls of the login and of the wizard.
PromiseMessages ==
    { [loading |-> "Verifying credentials...", success |-> "Welcome back!",
       error |-> "Login failed"],
      [loading |-> "Calculating best system...",
       success |-> "Quote generated successfully", error |-> "Error"] }

\* A variant that starts the removal timer for every toast.
timed_everyType(type) == TRUE

\* handleToast starts the 4000 ms timer if (e.detail.type !== 'loading').
timed(type) == type # "loading"

\* setToasts((prev) => [...prev, { ...e.detail, id }])
handleToast(list, id, detail) ==
    Append(list, [id |-> id, type |-> detail.type, message |-> detail.message])

\* prev.filter((t) => t.id !== id)
removed(list, id) == SelectSeq(list, LAMBDA t : t.id # id)

\* The ids whose timer is running: a timer is started with the toast and the
\* toast leaves the list only when it fires.
timers(list) == { list[i].id : i \in { j \in 1..Len(list) : timed(list[j].type) } }

\* Toasts still to come: one for each promise that has not settled.
toastsDue == (nextToastId - 1) + Len(toastPromises)

InitToaster ==
    /\ monthlyBill = 50000
    /\ fuelCost = 30000
    /\ appliances = <<>>
    /\ catalog = DEFAULT_CATALOG
    /\ result = null
    /\ AppIdle

\* toast.success(message) or toast.error(message)
toastCalled ==
    /\ toastsDue < MaxToasts
    /\ \E type \in {"success", "error"}, message \in ToastMessages :
          toasts' = handleToast(toasts, nextToastId, [type |-> type, message |-> message])
    /\ nextToastId' = nextToastId + 1
    /\ UNCHANGED toastPromises
    /\ UNCHANGED <<engineVars, appVars, loading, store, sessionVars>>

\* toast.promise(promise, messages) up to its await: toast.loading(loading)
promiseCalled ==
    /\ toastsDue + 1 < MaxToasts
    /\ \E messages \in PromiseMessages :
          /\ toasts' = handleToast(toasts, nextToastId,
                                   [type |-> "loading", message |-> messages.loading])
          /\ toastPromises' = Append(toastPromises, messages)
    /\ nextToastId' = nextToastId + 1
    /\ UNCHANGED <<engineVars, appVars, loading, store, sessionVars>>

\* A promise of toast.promise settles: toast.success(success) when it
\* resolves, toast.error(error) when it rejects. The promises wait for
\* timers of different lengths, so any of them may be the next.
promiseSettled ==
    /\ \E k \in 1..Len(toastPromises), outcome \in {"success", "error"} :
          /\ toasts' = handleToast(toasts, nextToastId,
                                   [type |-> outcome, message |-> toastPromises[k][outcome]])
          /\ toastPromises' = [i \in 1..(Len(toastPromises) - 1) |->
                                  IF i < k THEN toastPromises[i] ELSE toastPromises[i + 1]]
    /\ nextToastId' = nextToastId + 1
    /\ UNCHANGED <<engineVars, appVars, loading, store, sessionVars>>

\* The 4000 ms timer of a toast fires. The timers are equally long, so the
\* one that was started first fires first.
toastExpired ==
    /\ timers(toasts) # {}
    /\ LET id == CHOOSE i \in timers(toasts) : \A j \in timers(toasts) : i <= j
       IN  toasts' = removed(toasts, id)
    /\ UNCHANGED <<nextToastId, toastPromises>>
    /\ UNCHANGED <<engineVars, appVars, loading, store, sessionVars>>

NextToaster == toastCalled \/ promiseCalled \/ promiseSettled \/ toastExpired

SpecToaster == InitToaster /\ [][NextToaster]_vars

\* While the Toaster stays mounted its timers fire and the promises given
\* to toast.promise, which wait on a timer, settle.
SpecToasterLive ==
    /\ SpecToaster
    /\ WF_toastVars(toastExpired)
    /\ WF_toastVars(promiseSettled)

ToastIds == 1..(MaxToasts + 1)

Shown(id) == \E i \in 1..Len(toasts) : toasts[i].id = id

ShownAs(id, types) == \E i \in 1..Len(toasts) : toasts[i].id = id /\ toasts[i].type \in types

\* C30: a toast that is not of type 'loading' is removed in the end; a step
\* that shortens the list removes one such toast, the one with the id of
\* the timer, and leaves the others in their order; a 'loading' toast stays
\* in every later state, and a promise that settles adds its success or
\* error toast next to it.
C30_ToastLifetimes ==
    /\ \A id \in ToastIds : ShownAs(id, {"success", "error"}) ~> ~Shown(id)
    /\ [][ Len(toasts') < Len(toasts)
           => \E id \in ToastIds :
                 /\ ShownAs(id, {"success", "error"})
                 /\ toasts' = removed(toasts, id)
                 /\ Len(toasts') = Len(toasts) - 1 ]_vars
    /\ [][ \A i \in 1..Len(toasts) :
              toasts[i].type = "loading"
                 => \E j \in 1..Len(toasts') : toasts'[j] = toasts[i] ]_vars
    /\ [][ Len(toastPromises') < Len(toastPromises)
           => /\ Len(toasts') = Len(toasts) + 1
              /\ toasts'[Len(toasts')].type \in {"success", "error"}
              /\ \E i \in 1..Len(toasts) : toasts[i].type = "loading" ]_vars

\* C30 witness: two promises have settled, one resolved and one rejected,
\* their result toasts have been shown and the first of them has expired,
\* and both loading toasts are in the list.
C30_Witness ==
    /\ toastPromises = <<>>
    /\ nextToastId = 5
    /\ Len(toasts) = 3
    /\ toasts[1].type = "loading" /\ toasts[2].type = "loading"
    /\ toasts[3].type = "error"

====
